---- MODULE Spec2Model ----
(***************************************************************************)
(* A model of getdata.py: one run of the script that fetches a list of     *)
(* point identifiers, splits it into chunks, queries a data API once per   *)
(* chunk with a shared time window, concatenates the answers column-wise   *)
(* and uploads the result.                                                 *)
(*                                                                         *)
(* Time is counted in whole seconds.  An identifier is a number, a         *)
(* timestamp of the answered data is an instant in seconds, and the text   *)
(* produced by isoformat() is the tuple <<hours, minutes, seconds>>.       *)
(***************************************************************************)
EXTENDS Integers, Sequences, FiniteSets, TLC

VARIABLES
    pc,                \* position of the script
    chunk_size,        \* configuration.getint("chunk_size")
    timedelta,         \* configuration.getint("timedelta"), minutes
    now,               \* the wall clock read by datetime.datetime.utcnow()
    requested_points,  \* the identifiers read from the fetched file
    sliced_requests,   \* the chunks of requested_points
    params,            \* the dict of query parameters, reused by every query
    index,             \* the loop counter of enumerate(sliced_requests)
    results,           \* the data frames appended so far
    endresult,         \* the concatenated frame with its normalised index
    net,               \* the requests issued so far, in order
    inflight,          \* the number of data requests not yet answered
    responses,         \* the kinds of the responses received so far
    error              \* the exception that ended the run, if any

vars == <<pc, chunk_size, timedelta, now, requested_points, sliced_requests,
          params, index, results, endresult, net, inflight, responses,
          error>>

----------------------------------------------------------------------------
(* Bounds of the model *)

MaxLen == 3        \* longest identifier list of a whole run
MaxLenChunk == 4   \* longest identifier list given to the chunking step alone
MaxChunk == 3      \* largest configured chunk size
MaxLookback == 1   \* largest configured timedelta, minutes
MaxClock == 2      \* the clock of a run moves in steps of 150 s, this many
MaxNow == 700      \* the instants tried for the time window alone, seconds

(* Program constants *)

Granularity == 300     \* round("5T"): five minutes, in seconds
TallinnOffset == 7200  \* tz_convert("Europe/Tallinn"): UTC+2 (winter time)

(* The values the environment supplies *)

Ids == {101, 102}
Timestamps == {600, 900}
Values == {"1.5"}
NaN == "NaN"

ChunkSizes == -1 .. MaxChunk
Lookbacks == 0 .. MaxLookback
RunNows == {600 + 150 * k : k \in 0 .. MaxClock}
AllNows == 600 .. (600 + MaxNow)

----------------------------------------------------------------------------
(* Pure functions *)

\* The lists of identifiers of length at most n
ListsUpTo(n) == UNION {[1 .. k -> Ids] : k \in 0 .. n}

\* The lists 101, 102, ... of k distinct identifiers, k at most n
DistinctLists(n) == {[i \in 1 .. k |-> 100 + i] : k \in 0 .. n}

\* np.arange(start, stop, step) for integers, step /= 0
RECURSIVE Arange(_, _, _)
Arange(start, stop, step) ==
    IF (step > 0 /\ start < stop) \/ (step < 0 /\ start > stop)
    THEN <<start>> \o Arange(start + step, stop, step)
    ELSE <<>>

\* The indices to split at, with the stop one too far: a split at len(ary)
SplitIndicesInclusive(length, size) == Arange(size, length + 1, size)

\* np.arange(chunk_size, len(requested_points), chunk_size)
SplitIndices(length, size) == Arange(size, length, size)

\* np.array_split(ary, indices): the slices between consecutive division
\* points [0] + indices + [len(ary)]
ArraySplit(ary, indices) ==
    LET div_points == <<0>> \o indices \o <<Len(ary)>>
    IN  [i \in 1 .. Len(indices) + 1 |->
            SubSeq(ary, div_points[i] + 1, div_points[i + 1])]

\* The concatenation of a sequence of sequences
RECURSIVE Flatten(_)
Flatten(ss) == IF ss = <<>> THEN <<>> ELSE Head(ss) \o Flatten(Tail(ss))

\* Timestamp.round(unit): to the nearest multiple, a tie to the even multiple
RoundHalfEven(x, unit) ==
    LET q == x \div unit
        r == x % unit
    IN  IF 2 * r < unit THEN q * unit
        ELSE IF 2 * r > unit THEN (q + 1) * unit
        ELSE IF q % 2 = 0 THEN q * unit ELSE (q + 1) * unit

\* isoformat(timespec="seconds"): the text of an instant as hours, minutes
\* and seconds; FromIso reads such a text back
IsoFormat(t) == <<t \div 3600, (t % 3600) \div 60, t % 60>>
FromIso(s) == s[1] * 3600 + s[2] * 60 + s[3]

\* pd.Timestamp(utcnow() - timedelta(minutes=...)).round("5T").isoformat(...)
StartTime(clock, minutes) ==
    IsoFormat(RoundHalfEven(clock - 60 * minutes, Granularity))

\* urllib.parse.urlencode(params, doseq=True): the key=value pairs of the
\* query string in the order the keys entered the dict, one pair per element
\* of a list value
UrlEncode(p) ==
    LET points == [i \in 1 .. Len(p["scada_point"]) |->
                      <<"scada_point", p["scada_point"][i]>>]
    IN  <<(<<"start_time", p["start_time"]>>)>> \o points
            \o <<(<<"end_time", p["end_time"]>>)>>

\* The identifiers a query string carries
PointsOf(url) ==
    LET sel == SelectSeq(url, LAMBDA kv : kv[1] = "scada_point")
    IN  [i \in 1 .. Len(sel) |-> sel[i][2]]

\* The value a query string gives to a key that occurs once
ValueOf(url, key) ==
    LET sel == SelectSeq(url, LAMBDA kv : kv[1] = key) IN sel[1][2]

\* The series a column of an answer may hold: a value at some timestamps
SeriesSet == UNION {[S -> Values] : S \in SUBSET Timestamps}

\* The "data" objects the server may answer a query for the given points
\* with: one column per point, each a series keyed by timestamp
DataFor(points) ==
    {[j \in 1 .. Len(points) |-> [name |-> points[j], series |-> f[j]]] :
        f \in [1 .. Len(points) -> SeriesSet]}

\* The response bodies the server may send
Responses(points) ==
    {[kind |-> "not_json", data |-> <<>>], [kind |-> "no_data", data |-> <<>>]}
        \cup {[kind |-> "data", data |-> d] : d \in DataFor(points)}

\* A column over a new row index: the missing-value marker where the column
\* has no entry
Reindex(col, rows) ==
    [name |-> col.name,
     val  |-> [t \in rows |-> IF t \in DOMAIN col.val THEN col.val[t] ELSE NaN]]

\* pd.DataFrame(data) for a dict of series: the row index is the union of
\* the series' keys, one column per key of the dict
DataFrame(data) ==
    LET rows == UNION {DOMAIN data[j].series : j \in 1 .. Len(data)}
    IN  [index |-> rows,
         cols  |-> [j \in 1 .. Len(data) |->
                      Reindex([name |-> data[j].name, val |-> data[j].series],
                              rows)]]

\* The rows every frame has
CommonRows(frames) ==
    {t \in UNION {frames[i].index : i \in 1 .. Len(frames)} :
        \A i \in 1 .. Len(frames) : t \in frames[i].index}

\* The rows some frame has
AllRows(frames) == UNION {frames[i].index : i \in 1 .. Len(frames)}

\* The columns of the frames, in order, over the given rows
ColumnsOver(frames, rows) ==
    Flatten([i \in 1 .. Len(frames) |->
                [j \in 1 .. Len(frames[i].cols) |->
                    Reindex(frames[i].cols[j], rows)]])

\* A column-wise concatenation that keeps only the rows every frame has
ConcatInner(frames) ==
    [index |-> CommonRows(frames),
     cols  |-> ColumnsOver(frames, CommonRows(frames))]

\* pd.concat(frames, axis=1), for a non-empty list of frames
Concat(frames) ==
    [index |-> AllRows(frames), cols |-> ColumnsOver(frames, AllRows(frames))]

\* The label of a row after tz_convert("Europe/Tallinn").tz_localize(None)
\* and isoformat(timespec='seconds')
LocalIso(t) == IsoFormat(t + TallinnOffset)

\* The frame with every row label replaced by its local text
NormalizeIndex(frame) ==
    LET back(l) == CHOOSE t \in frame.index : LocalIso(t) = l
        labels  == {LocalIso(t) : t \in frame.index}
    IN  [index |-> labels,
         cols  |-> [j \in 1 .. Len(frame.cols) |->
                      [name |-> frame.cols[j].name,
                       val  |-> [l \in labels |-> frame.cols[j].val[back(l)]]]]]

----------------------------------------------------------------------------
(* The run *)

NoError == [kind |-> "none", line |-> 0, message |-> <<>>]
NoFrame == [index |-> {}, cols |-> <<>>]

\* The state after the configuration has been read (lines 19-42)
InitWith(nows) ==
    /\ pc = "start"
    /\ chunk_size \in ChunkSizes
    /\ timedelta \in Lookbacks
    /\ now \in nows
    /\ requested_points = <<>>
    /\ sliced_requests = <<>>
    /\ params = <<>>
    /\ index = 0
    /\ results = <<>>
    /\ endresult = NoFrame
    /\ net = <<>>
    /\ inflight = 0
    /\ responses = <<>>
    /\ error = NoError

Init == InitWith(RunNows)

\* Lines 44-56: the source file is requested and the identifiers are read
FetchSourceFrom(lists) ==
    /\ pc = "start"
    /\ \E L \in lists : requested_points' = L
    /\ net' = Append(net, [kind |-> "source"])
    /\ pc' = "fetched"
    /\ UNCHANGED <<chunk_size, timedelta, now, sliced_requests, params, index,
                   results, endresult, inflight, responses, error>>

FetchSource == FetchSourceFrom(DistinctLists(MaxLen))

\* Lines 58-59: the list is split; np.arange raises for a step of zero, a
\* ZeroDivisionError or a ValueError depending on the numpy at hand
Chunk ==
    /\ pc = "fetched"
    /\ IF chunk_size = 0
       THEN /\ pc' = "error"
            /\ \E k \in {"ZeroDivisionError", "ValueError"} :
                  error' = [kind |-> k, line |-> 58,
                            message |-> <<(<<"text", "np.arange: zero step">>)>>]
            /\ UNCHANGED sliced_requests
       ELSE /\ pc' = "chunked"
            /\ sliced_requests' =
                   ArraySplit(requested_points,
                              SplitIndices(Len(requested_points), chunk_size))
            /\ UNCHANGED error
    /\ UNCHANGED <<chunk_size, timedelta, now, requested_points, params, index,
                   results, endresult, net, inflight, responses>>

\* Lines 62-71: the parameters are prepared, the clock is read once
BuildParams ==
    /\ pc = "chunked"
    /\ params' = ("start_time" :> StartTime(now, timedelta))
    /\ results' = <<>>
    /\ index' = 0
    /\ pc' = "loop"
    /\ UNCHANGED <<chunk_size, timedelta, now, requested_points,
                   sliced_requests, endresult, net, inflight, responses,
                   error>>

\* The dict after params[key] = value
SetItem(p, key, value) ==
    [k \in DOMAIN p \cup {key} |-> IF k = key THEN value ELSE p[k]]

\* The parameters of a query whose window is taken from the clock anew
QueryParamsFresh(p, points) ==
    LET p1 == SetItem(SetItem(p, "start_time", StartTime(now, timedelta)),
                      "scada_point", points)
    IN  IF "end_time" \in DOMAIN p1 THEN p1
        ELSE SetItem(p1, "end_time", p1["start_time"])

\* The parameters of a query that keeps the points of the queries before it
QueryParamsKeeping(p, points) ==
    LET old == IF "scada_point" \in DOMAIN p THEN p["scada_point"] ELSE <<>>
        p1  == SetItem(p, "scada_point", old \o points)
    IN  IF "end_time" \in DOMAIN p1 THEN p1
        ELSE SetItem(p1, "end_time", p1["start_time"])

\* Lines 74-77: the points of the chunk replace those of the chunk before,
\* and end_time is set if it is not there
QueryParams(p, points) ==
    LET p1 == SetItem(p, "scada_point", points)
    IN  IF "end_time" \in DOMAIN p1 THEN p1
        ELSE SetItem(p1, "end_time", p1["start_time"])

\* A dispatch that does not wait for the answer before the next one
DispatchWithoutWaiting ==
    /\ pc = "loop"
    /\ index < Len(sliced_requests)
    /\ params' = QueryParams(params, sliced_requests[index + 1])
    /\ net' = Append(net, [kind |-> "query", index |-> index,
                           url |-> UrlEncode(params')])
    /\ inflight' = inflight + 1
    /\ index' = index + 1
    /\ UNCHANGED <<pc, chunk_size, timedelta, now, requested_points,
                   sliced_requests, results, endresult, responses, error>>

\* Lines 72-84: the query of the next chunk is built, printed and sent;
\* requests.get blocks until the answer is there
Dispatch ==
    /\ pc = "loop"
    /\ index < Len(sliced_requests)
    /\ params' = QueryParams(params, sliced_requests[index + 1])
    /\ net' = Append(net, [kind |-> "query", index |-> index,
                           url |-> UrlEncode(params')])
    /\ inflight' = inflight + 1
    /\ pc' = "waiting"
    /\ UNCHANGED <<chunk_size, timedelta, now, requested_points,
                   sliced_requests, index, results, endresult, responses,
                   error>>

\* The message of the ValueError of lines 88-90
FetchErrorMessage(p, r) ==
    <<(<<"text", "Could not receive data from the server at current time">>),
      <<"window", <<p["start_time"], p["end_time"]>> >>,
      <<"body", r>>,
      <<"text", "Change timedelta in">>,
      <<"config_path", "settings.cfg">> >>

\* An answer that is taken in whatever it holds: a bad one counts as an
\* empty table and the loop goes on
ReceiveSkipping ==
    /\ pc = "waiting"
    /\ \E r \in Responses(params["scada_point"]) :
        /\ responses' = Append(responses, r.kind)
        /\ results' = Append(results, DataFrame(r.data))
    /\ inflight' = inflight - 1
    /\ index' = index + 1
    /\ pc' = "loop"
    /\ UNCHANGED <<chunk_size, timedelta, now, requested_points,
                   sliced_requests, params, endresult, net, error>>

\* Lines 84-93: the answer arrives and is parsed; a body that is not JSON
\* raises the ValueError of line 88, a JSON body without "data" raises the
\* KeyError of line 86, which nothing catches; otherwise the frame is
\* appended and the loop goes on
Receive ==
    /\ pc = "waiting"
    /\ inflight' = inflight - 1
    /\ \E r \in Responses(params["scada_point"]) :
        /\ responses' = Append(responses, r.kind)
        /\ CASE r.kind = "not_json" ->
                  /\ error' = [kind |-> "ValueError", line |-> 88,
                               message |-> FetchErrorMessage(params, r)]
                  /\ pc' = "error"
                  /\ UNCHANGED <<results, index>>
             [] r.kind = "no_data" ->
                  /\ error' = [kind |-> "KeyError", line |-> 86,
                               message |-> <<(<<"key", "data">>)>>]
                  /\ pc' = "error"
                  /\ UNCHANGED <<results, index>>
             [] r.kind = "data" ->
                  /\ results' = Append(results, DataFrame(r.data))
                  /\ index' = index + 1
                  /\ pc' = "loop"
                  /\ UNCHANGED error
    /\ UNCHANGED <<chunk_size, timedelta, now, requested_points,
                   sliced_requests, params, endresult, net>>

\* Lines 96-103: the frames are concatenated and the index is converted;
\* pd.concat raises for an empty list, tz_convert raises for an index
\* without a time zone, which is what an empty index becomes
Merge ==
    /\ pc = "loop"
    /\ index = Len(sliced_requests)
    /\ IF results = <<>>
       THEN /\ error' = [kind |-> "ValueError", line |-> 96,
                         message |-> <<(<<"text", "No objects to concatenate">>)>>]
            /\ pc' = "error"
            /\ UNCHANGED endresult
       ELSE IF Concat(results).index = {}
       THEN /\ error' = [kind |-> "TypeError", line |-> 98,
                         message |-> <<(<<"text", "Cannot convert tz-naive timestamps">>)>>]
            /\ pc' = "error"
            /\ UNCHANGED endresult
       ELSE /\ endresult' = NormalizeIndex(Concat(results))
            /\ pc' = "merged"
            /\ UNCHANGED error
    /\ UNCHANGED <<chunk_size, timedelta, now, requested_points,
                   sliced_requests, params, index, results, net, inflight,
                   responses>>

\* Lines 106-119: the table is uploaded
Upload ==
    /\ pc = "merged"
    /\ net' = Append(net, [kind |-> "upload", content |-> endresult])
    /\ pc' = "done"
    /\ UNCHANGED <<chunk_size, timedelta, now, requested_points,
                   sliced_requests, params, index, results, endresult,
                   inflight, responses, error>>

\* Wall-clock time passes while the script runs
Tick ==
    /\ pc \notin {"done", "error"}
    /\ now < 600 + 150 * MaxClock
    /\ now' = now + 150
    /\ UNCHANGED <<pc, chunk_size, timedelta, requested_points,
                   sliced_requests, params, index, results, endresult, net,
                   inflight, responses, error>>

Next ==
    \/ FetchSource
    \/ Chunk
    \/ BuildParams
    \/ Dispatch
    \/ Receive
    \/ Merge
    \/ Upload
    \/ Tick

Spec == Init /\ [][Next]_vars

\* The chunking step alone, over every list of identifiers
FetchAnyList == FetchSourceFrom(ListsUpTo(MaxLenChunk))

NextChunk ==
    \/ FetchAnyList
    \/ Chunk

SpecChunk == Init /\ [][NextChunk]_vars

\* The time window alone, over every second of the clock: the state after
\* an empty list has been fetched and split
InitTime ==
    /\ pc = "chunked"
    /\ chunk_size \in 1 .. MaxChunk
    /\ timedelta \in Lookbacks
    /\ now \in AllNows
    /\ requested_points = <<>>
    /\ sliced_requests = ArraySplit(<<>>, SplitIndices(0, chunk_size))
    /\ params = <<>>
    /\ index = 0
    /\ results = <<>>
    /\ endresult = NoFrame
    /\ net = <<[kind |-> "source"]>>
    /\ inflight = 0
    /\ responses = <<>>
    /\ error = NoError

NextTime ==
    \/ BuildParams

SpecTime == InitTime /\ [][NextTime]_vars

----------------------------------------------------------------------------
(* The claims *)

\* The data queries and the uploads issued so far
Queries == SelectSeq(net, LAMBDA e : e.kind = "query")
Uploads == SelectSeq(net, LAMBDA e : e.kind = "upload")

CeilDiv(a, b) == (a + b - 1) \div b

BadResponse == \E i \in 1 .. Len(responses) : responses[i] # "data"

\* C1: for a non-empty list and a chunk size n > 0 the batches concatenated
\* in order give the list back, every batch is non-empty and no longer than
\* n, every batch but the last has exactly n elements, there are
\* ceil(len/n) batches, and a single batch equal to the list when n >= len.
C1_ChunksPartitionList ==
    (pc = "chunked" /\ requested_points # <<>> /\ chunk_size > 0) =>
        LET n == chunk_size
            k == Len(sliced_requests)
        IN  /\ Flatten(sliced_requests) = requested_points
            /\ \A i \in 1 .. k : Len(sliced_requests[i]) \in 1 .. n
            /\ \A i \in 1 .. k - 1 : Len(sliced_requests[i]) = n
            /\ k = CeilDiv(Len(requested_points), n)
            /\ (n >= Len(requested_points) =>
                    sliced_requests = <<requested_points>>)

C1_Witness ==
    /\ pc = "chunked"
    /\ Len(requested_points) = 3
    /\ chunk_size = 2
    /\ Len(sliced_requests) = 2
    /\ Len(sliced_requests[2]) = 1

\* C2: a response that is not parsable or has no "data" ends the run: it
\* is the last response received, no query follows it, nothing is merged
\* and nothing is uploaded; an upload is issued only after every batch has
\* been queried and every response has been parsed into a frame.
C2_BadResponseAbortsRun ==
    /\ BadResponse =>
          /\ pc = "error"
          /\ \A i \in 1 .. Len(responses) - 1 : responses[i] = "data"
          /\ Len(Queries) = Len(responses)
          /\ endresult = NoFrame
          /\ Uploads = <<>>
    /\ Uploads # <<>> =>
          /\ Len(Queries) = Len(sliced_requests)
          /\ Len(responses) = Len(sliced_requests)
          /\ Len(results) = Len(sliced_requests)
          /\ ~BadResponse

C2_Witness ==
    /\ pc = "error"
    /\ Len(sliced_requests) = 3
    /\ Len(results) = 1
    /\ responses = <<"data", "not_json">>
    /\ Uploads = <<>>

\* C3: every query of a run carries the same start_time and the same
\* end_time, which are the start_time held by the parameter record, and
\* end_time equals start_time, however far the clock has moved.
C3_QueriesShareWindow ==
    \A i \in 1 .. Len(Queries) :
        /\ ValueOf(Queries[i].url, "start_time") = params["start_time"]
        /\ ValueOf(Queries[i].url, "end_time") = params["start_time"]
        /\ \A j \in 1 .. Len(Queries) :
              /\ ValueOf(Queries[i].url, "start_time")
                    = ValueOf(Queries[j].url, "start_time")
              /\ ValueOf(Queries[i].url, "end_time")
                    = ValueOf(Queries[j].url, "end_time")

C3_Witness ==
    /\ Len(Queries) = 2
    /\ StartTime(now, timedelta) # params["start_time"]

\* C4: the start of the window is (now - lookback) rounded down to the
\* granularity: a multiple of it, not after now - lookback and less than
\* one granularity before it.
C4_StartIsRoundedDown ==
    pc = "loop" =>
        LET start == FromIso(params["start_time"])
            x     == now - 60 * timedelta
        IN  /\ start % Granularity = 0
            /\ start <= x
            /\ x - start < Granularity

\* C5: an unparsable body and a body without "data" end the run with the
\* same kind of error, the one of the failed fetch, whose message holds
\* the batch index, the time window and the raw body.
DataFetchError == "ValueError"
Tags(message) == {message[i][1] : i \in 1 .. Len(message)}

C5_BadResponseIsDataFetchError ==
    (pc = "error" /\ BadResponse) =>
        /\ error.kind = DataFetchError
        /\ {"index", "window", "body"} \subseteq Tags(error.message)

\* C6: a chunk size <= 0 fails the run with InvalidConfigurationError
\* before any request (source file, query, upload) is issued.
C6_BadChunkSizeFailsBeforeNetwork ==
    chunk_size <= 0 =>
        /\ net = <<>>
        /\ pc \in {"start", "error"}
        /\ (pc = "error" => error.kind = "InvalidConfigurationError")

\* C7: an empty list and a chunk size n > 0 give no batch at all.
C7_EmptyListGivesNoBatch ==
    (pc = "chunked" /\ requested_points = <<>> /\ chunk_size > 0) =>
        sliced_requests = <<>>

\* C8: the merged table is the outer column-wise join: its rows are the
\* union of the batches' timestamps, its columns are the batches' columns
\* in ascending batch order, and the merge puts the missing-value marker
\* in a cell exactly when the cell's batch has no row for the timestamp;
\* differing timestamp sets drop no row and raise no error.
RECURSIVE ColumnsBefore(_)
ColumnsBefore(i) ==
    IF i <= 1 THEN 0 ELSE ColumnsBefore(i - 1) + Len(results[i - 1].cols)

C8_MergeIsOuterJoin ==
    LET k == Len(results)
        U == UNION {results[i].index : i \in 1 .. k}
    IN  /\ pc \in {"merged", "done"} =>
              /\ endresult.index = {LocalIso(t) : t \in U}
              /\ Cardinality(endresult.index) = Cardinality(U)
              /\ Len(endresult.cols) = ColumnsBefore(k + 1)
              /\ \A i \in 1 .. k : \A j \in 1 .. Len(results[i].cols) :
                    LET c == endresult.cols[ColumnsBefore(i) + j]
                    IN  /\ c.name = results[i].cols[j].name
                        /\ \A t \in U :
                              c.val[LocalIso(t)] =
                                  IF t \in results[i].index
                                  THEN results[i].cols[j].val[t]
                                  ELSE NaN
        /\ (pc = "error" /\ error.line \in {96, 98}) => U = {}

C8_Witness ==
    /\ pc = "merged"
    /\ Len(results) = 2
    /\ results[1].index = {600}
    /\ results[2].index = {900}
    /\ Len(endresult.cols) = 3
    /\ endresult.cols[1].val[LocalIso(900)] = NaN
    /\ endresult.cols[3].val[LocalIso(900)] # NaN

\* C9: the queries are sent one after the other in ascending batch index:
\* never more than one is unanswered, and a query is sent only when every
\* query before it has been answered and its frame appended.
C9_StrictlySequential ==
    /\ inflight \in {0, 1}
    /\ Len(Queries) = Len(responses) + inflight
    /\ \A q \in 1 .. Len(Queries) : Queries[q].index = q - 1
    /\ Len(Queries) >= 1 => Len(results) >= Len(Queries) - 1
    /\ (inflight = 1 \/ pc = "loop") => Len(results) = Len(responses)

C9_Witness ==
    /\ Len(Queries) = 2
    /\ inflight = 1
    /\ Len(results) = 1

\* C10: query k carries the identifiers of batch k and no others; once all
\* queries are sent there is one query per batch and the identifiers of
\* the queries, in order, are the identifier list.
C10_QueryCarriesItsBatchOnly ==
    /\ Len(Queries) <= Len(sliced_requests)
    /\ \A q \in 1 .. Len(Queries) :
          PointsOf(Queries[q].url) = sliced_requests[q]
    /\ pc \in {"merged", "done"} =>
          /\ Len(Queries) = Len(sliced_requests)
          /\ Flatten([q \in 1 .. Len(Queries) |-> PointsOf(Queries[q].url)])
                = requested_points

C10_Witness ==
    /\ pc = "done"
    /\ Len(Queries) = 3
    /\ PointsOf(Queries[3].url) = <<103>>

====
